---------------------------- MODULE Spec2Model ----------------------------
(***************************************************************************)
(* Model of the AlphaStream backend: the cache-backed news read paths of   *)
(* src/main.py, the refresh coordinator started at startup, and the        *)
(* DatabaseManager of src/database/db_manager.py.                          *)
(*                                                                         *)
(* Strings are sequences of one-character strings so that upper() and the  *)
(* f-string key construction are computed, not assumed.  Time is counted   *)
(* in integer ticks.                                                       *)
(***************************************************************************)
EXTENDS Integers, Sequences, FiniteSets, TLC

VARIABLES
    now,          \* wall clock of the news read paths, in ticks
    news_cache,   \* TTLCache mapping: cache key -> [value, insertedAt]
    lastSet,      \* history: per key, the value and time of the last set(key, value)
    req,          \* history: the last request served by news / company_news
    resp,         \* the response it produced
    stocks,       \* the committed rows of the stocks table, in rowid order
    lastBatch,    \* history: the batch of the last insert_stocks_bulk call
    ret,          \* history: the last DatabaseManager call and what it returned
    refresh_log,  \* the rows of the refresh_log table, oldest first
    started,      \* startup_event has started the scheduler
    loop,         \* where the background poll loop stands
    inFlight,     \* the coordinator's in-flight flag
    running,      \* who is executing a bulk refresh (0 is the poll loop)
    attempt,      \* history: the last trigger attempt and whether it was a no-op
    conn,         \* DatabaseManager.conn of the shared instance db
    opened,       \* the sqlite connections that are open
    made,         \* how many connections connect() has created
    ops           \* per thread: the store operation it is running

newsVars == <<news_cache, lastSet, req, resp>>

dbVars == <<stocks, lastBatch, ret>>

coVars == <<refresh_log, started, loop, inFlight, running, attempt>>

connVars == <<conn, opened, made, ops>>

vars == <<now, news_cache, lastSet, req, resp, stocks, lastBatch, ret,
          refresh_log, started, loop, inFlight, running, attempt,
          conn, opened, made, ops>>

----------------------------------------------------------------------------
(* Bounds *)

MaxTime == 3

MaxBatch == 2

MaxTriggers == 2

MaxLog == 2

MaxOps == 2

MaxConns == 3

RefreshMaxAge == 1

(* Program constants *)

NEWS_TTL == 1

NewsLimit == 20

\* Python values held by the cache and carried by responses: None or a list
None == [isNone |-> TRUE, items |-> << >>]

List(s) == [isNone |-> FALSE, items |-> s]

\* a timestamp datetime.fromtimestamp rejects (out of range)
BadTs == -1

----------------------------------------------------------------------------
(* Strings *)

UpperChar(c) ==
    CASE c = "a" -> "A"
      [] c = "b" -> "B"
      [] c = "g" -> "G"
      [] c = "e" -> "E"
      [] c = "n" -> "N"
      [] OTHER -> c

Upper(s) == [i \in 1..Len(s) |-> UpperChar(s[i])]

NewsPrefix == <<"n", "e", "w", "s", ":">>

\* f"news:{category}"
NewsKey(category) == NewsPrefix \o category

\* f"news:{ticker.upper()}"
CompanyKey(ticker) == NewsPrefix \o Upper(ticker)

Categories == { <<"g", "e", "n">>, <<"A", "B">> }

Tickers == { <<"a", "b">>, <<"A", "B">> }

----------------------------------------------------------------------------
(* Python helpers *)

\* truth value of a cached value: None and the empty list are falsy
Truthy(v) == ~v.isNone /\ v.items /= << >>

\* news_data[:20]
Take(s, n) == IF Len(s) <= n THEN s ELSE SubSeq(s, 1, n)

----------------------------------------------------------------------------
(* utils.cache.TTLCache *)

TTLCacheSet(store, key, value, t) ==
    [k \in DOMAIN store \cup {key} |->
        IF k = key THEN [value |-> value, insertedAt |-> t] ELSE store[k]]

IsStale(entry, ttl, t) == (t - entry.insertedAt) > ttl

\* an expiring cache: a stale entry is reported as absent
TTLCacheGetEvicting(store, key, t) ==
    IF key \in DOMAIN store /\ ~IsStale(store[key], NEWS_TTL, t)
    THEN <<store[key].value, FALSE>>
    ELSE <<None, TRUE>>

TTLCacheGet(store, key, t) ==
    IF key \in DOMAIN store
    THEN <<store[key].value, IsStale(store[key], NEWS_TTL, t)>>
    ELSE <<None, TRUE>>

----------------------------------------------------------------------------
(* The provider (clients.finnhub_client.finnhub) *)

RawItem(i, ts) == [id |-> i, datetime |-> ts]

LongData == [i \in 1..(NewsLimit + 1) |-> RawItem(i, 0)]

ProviderData ==
    { <<>>,
      <<RawItem(1, 0)>>,
      <<RawItem(2, 0), RawItem(1, 0)>>,
      <<RawItem(1, BadTs)>>,
      LongData }

\* outcome of one provider call
ProviderOutcomes ==
    { [kind |-> "ok", data |-> d] : d \in ProviderData }
    \cup { [kind |-> "ratelimit", data |-> <<>>] }
    \cup { [kind |-> "error", data |-> <<>>] }

----------------------------------------------------------------------------
(* Building the MarketNewsItem lists *)

\* datetime.fromtimestamp raises on a malformed timestamp
ConversionRaises(data) ==
    \E i \in 1..Len(Take(data, NewsLimit)) : data[i].datetime = BadTs

MarketItems(data, category) ==
    [i \in 1..Len(Take(data, NewsLimit)) |->
        [id |-> data[i].id, category |-> category, tickers |-> << >>]]

CompanyItems(data, ticker) ==
    [i \in 1..Len(Take(data, NewsLimit)) |->
        [id |-> data[i].id, category |-> <<"c", "o">>,
         tickers |-> <<Upper(ticker)>>]]

----------------------------------------------------------------------------
(* Responses *)

Ok(body) == [status |-> 200, body |-> body]

HTTPException(code) == [status |-> code, body |-> None]

NoRequest == [op |-> "none"]

\* The read path shared by news and company_news: key is the cache key,
\* items the converted list the handler would build from the provider data.
\* Returns <<response, cache after, provider called, set called>>.
ReadPath(store, key, out, items, raises, t) ==
    LET got == TTLCacheGet(store, key, t)
    IN  IF Truthy(got[1]) /\ ~got[2]
        THEN <<Ok(got[1]), store, FALSE, FALSE>>
        ELSE CASE out.kind = "ok" /\ ~raises ->
                    <<Ok(List(items)),
                      TTLCacheSet(store, key, List(items), t), TRUE, TRUE>>
               [] out.kind = "ok" /\ raises ->
                    <<HTTPException(500), store, TRUE, FALSE>>
               [] out.kind = "ratelimit" ->
                    LET again == TTLCacheGet(store, key, t)
                    IN  IF Truthy(again[1])
                        THEN <<Ok(again[1]), store, TRUE, FALSE>>
                        ELSE <<HTTPException(503), store, TRUE, FALSE>>
               [] OTHER ->
                    <<HTTPException(500), store, TRUE, FALSE>>

Request(op, arg, key, out, r) ==
    [op |-> op, arg |-> arg, key |-> key,
     pre |-> news_cache, at |-> now,
     called |-> r[3],
     outcome |-> IF r[3] THEN out.kind ELSE "none"]

\* history of the set calls: what was stored under each key, and when
RecordSet(key, r) ==
    IF r[4]
    THEN [k \in DOMAIN lastSet \cup {key} |->
            IF k = key THEN [value |-> r[1].body, at |-> now] ELSE lastSet[k]]
    ELSE lastSet

----------------------------------------------------------------------------
(* Actions of the news read paths *)

NewsInit ==
    /\ now = 0
    /\ news_cache = << >>
    /\ lastSet = << >>
    /\ req = NoRequest
    /\ resp = HTTPException(0)

\* GET /api/news
news(category, out) ==
    LET key == NewsKey(category)
        r == ReadPath(news_cache, key, out, MarketItems(out.data, category),
                      ConversionRaises(out.data), now)
    IN  /\ resp' = r[1]
        /\ news_cache' = r[2]
        /\ lastSet' = RecordSet(key, r)
        /\ req' = Request("news", category, key, out, r)
        /\ UNCHANGED <<now, dbVars, coVars, connVars>>

\* GET /api/news/{ticker}
company_news(ticker, out) ==
    LET key == CompanyKey(ticker)
        r == ReadPath(news_cache, key, out, CompanyItems(out.data, ticker),
                      ConversionRaises(out.data), now)
    IN  /\ resp' = r[1]
        /\ news_cache' = r[2]
        /\ lastSet' = RecordSet(key, r)
        /\ req' = Request("company_news", ticker, key, out, r)
        /\ UNCHANGED <<now, dbVars, coVars, connVars>>

Tick ==
    /\ now < MaxTime
    /\ now' = now + 1
    /\ UNCHANGED <<newsVars, dbVars, coVars, connVars>>

NewsRequest == \E c \in Categories, out \in ProviderOutcomes : news(c, out)

CompanyRequest == \E t \in Tickers, out \in ProviderOutcomes : company_news(t, out)

----------------------------------------------------------------------------
(* DatabaseManager: the stocks table *)

\* SQL NULL in the last_updated column (timestamps are ticks >= 0)
NULL == -1

\* ticks per minute: ages are fractions of minutes
TicksPerMinute == 2

\* the named bindings of the INSERT statement that the model keeps
Columns == {"ticker", "price", "last_updated"}

DbTickers == {"A", "B"}

\* the thresholds needs_refresh is called with, in minutes
MaxAges == {0, 1}

\* the records a caller can hand over at time t: complete ones stamped with
\* the current time or without a timestamp, and one lacking a binding
RecordsAt(t) ==
    { [ticker |-> k, price |-> 1, last_updated |-> t] : k \in DbTickers }
    \cup { [ticker |-> "A", price |-> 1, last_updated |-> NULL] }
    \cup { [ticker |-> "A", last_updated |-> t] }

BatchesAt(t) == UNION { [1..n -> RecordsAt(t)] : n \in 0..MaxBatch }

\* no call yet: a value that is no batch a caller can hand over
NoBatch == <<[none |-> TRUE]>>

\* cursor.execute raises when the dict lacks a named binding
ExecuteRaises(stock) == ~(Columns \subseteq DOMAIN stock)

\* the uniqueness constraint of the table: one row per ticker
Conflicts(row, stock) == row.ticker = stock.ticker

\* INSERT without the replacement of the conflicting row
InsertAppend(tbl, stock) == Append(tbl, stock)

\* INSERT OR REPLACE INTO stocks (...) VALUES (...)
InsertOrReplace(tbl, stock) ==
    Append(SelectSeq(tbl, LAMBDA row : ~Conflicts(row, stock)), stock)

RECURSIVE InsertLoopAborting(_, _, _, _)
\* a loop that gives up at the first record that fails
InsertLoopAborting(tbl, batch, i, success_count) ==
    IF i > Len(batch) \/ ExecuteRaises(batch[i])
    THEN <<tbl, success_count>>
    ELSE InsertLoopAborting(InsertOrReplace(tbl, batch[i]), batch, i + 1,
                            success_count + 1)

RECURSIVE InsertLoop(_, _, _, _)
\* the for loop of insert_stocks_bulk: <<table, success_count>>
InsertLoop(tbl, batch, i, success_count) ==
    IF i > Len(batch)
    THEN <<tbl, success_count>>
    ELSE IF ExecuteRaises(batch[i])
         THEN InsertLoop(tbl, batch, i + 1, success_count)
         ELSE InsertLoop(InsertOrReplace(tbl, batch[i]), batch, i + 1,
                         success_count + 1)

\* the table committed by insert_stocks_bulk and the count it returns
InsertStocksBulk(tbl, batch) == InsertLoop(tbl, batch, 1, 0)

\* Optional[float]: the age in ticks, or None
NoAge == [none |-> TRUE, ticks |-> 0]

Age(x) == [none |-> FALSE, ticks |-> x]

Timestamps(tbl) ==
    { tbl[i].last_updated : i \in 1..Len(tbl) } \ {NULL}

\* SQL MAX(last_updated): NULL over no non-NULL value
SqlMax(S) == IF S = {} THEN NULL ELSE CHOOSE x \in S : \A y \in S : y <= x

SqlMin(S) == IF S = {} THEN NULL ELSE CHOOSE x \in S : \A y \in S : x <= y

\* the age computed from the oldest row
DataAgeOfOldest(tbl, t) ==
    LET m == SqlMin(Timestamps(tbl))
    IN  IF m = NULL THEN NoAge ELSE Age(t - m)

\* get_data_age: (julianday('now') - julianday(MAX(last_updated))) * 24 * 60
GetDataAge(tbl, t) ==
    LET m == SqlMax(Timestamps(tbl))
    IN  IF m = NULL THEN NoAge ELSE Age(t - m)

\* a comparison that also fires at the threshold
AgeExceedsOrEquals(age, max_age_minutes) ==
    age.ticks >= max_age_minutes * TicksPerMinute

\* age > max_age_minutes, the age being age.ticks / TicksPerMinute minutes
AgeExceeds(age, max_age_minutes) ==
    age.ticks > max_age_minutes * TicksPerMinute

NeedsRefresh(tbl, t, max_age_minutes) ==
    LET age == GetDataAge(tbl, t)
    IN  IF age.none THEN TRUE ELSE AgeExceeds(age, max_age_minutes)

\* the record of a call: its name, its time, its argument and its result
\* (count for insert_stocks_bulk, age for get_data_age, flag for needs_refresh)
Call(op, at, max_age_minutes, count, age, flag, repeat) ==
    [op |-> op, at |-> at, max_age_minutes |-> max_age_minutes,
     count |-> count, age |-> age, flag |-> flag, repeat |-> repeat]

NoCall == Call("none", 0, 0, 0, NoAge, FALSE, FALSE)

DbInit ==
    /\ stocks = << >>
    /\ lastBatch = NoBatch
    /\ ret = NoCall

\* what insert_stocks_bulk does to the store
InsertEffect(batch) ==
    LET r == InsertStocksBulk(stocks, batch)
    IN  /\ stocks' = r[1]
        /\ lastBatch' = batch
        /\ ret' = Call("insert_stocks_bulk", now, 0, r[2], NoAge, FALSE,
                       batch = lastBatch)

insert_stocks_bulk(batch) ==
    /\ InsertEffect(batch)
    /\ UNCHANGED <<now, newsVars, connVars, coVars>>

get_data_age ==
    /\ ret' = Call("get_data_age", now, 0, 0, GetDataAge(stocks, now),
                   FALSE, FALSE)
    /\ UNCHANGED <<now, newsVars, connVars, coVars, stocks, lastBatch>>

needs_refresh(max_age_minutes) ==
    /\ ret' = Call("needs_refresh", now, max_age_minutes, 0, NoAge,
                   NeedsRefresh(stocks, now, max_age_minutes), FALSE)
    /\ UNCHANGED <<now, newsVars, connVars, coVars, stocks, lastBatch>>

InsertCall == \E b \in BatchesAt(now) : insert_stocks_bulk(b)

\* the caller hands over the batch of the previous call once more
InsertAgain == lastBatch /= NoBatch /\ insert_stocks_bulk(lastBatch)

NeedsRefreshCall == \E m \in MaxAges : needs_refresh(m)

DbNext ==
    \/ InsertCall
    \/ InsertAgain
    \/ get_data_age
    \/ NeedsRefreshCall
    \/ Tick

----------------------------------------------------------------------------
(* The refresh coordinator (services.refresh_scheduler) *)

PollLoop == 0

Triggers == 1..MaxTriggers

\* a start that does not look at the in-flight flag
MayStartUnguarded(flag) == TRUE

\* the non-reentrancy guard: a refresh starts only when none is in flight
MayStart(flag) == ~flag

\* INSERT INTO refresh_log (stocks_updated, ..., success, ...)
LogRefresh(log, stocks_updated, success) ==
    Append(log, [stocks_updated |-> stocks_updated, success |-> success])

\* what the provider returns for a bulk refresh at time t
ProviderBatches(t) ==
    { <<[ticker |-> "A", price |-> 1, last_updated |-> t],
        [ticker |-> "B", price |-> 1, last_updated |-> t]>>,
      <<[ticker |-> "A", last_updated |-> t],
        [ticker |-> "B", price |-> 1, last_updated |-> t]>> }

NoAttempt == [who |-> 0, noop |-> FALSE]

CoInit ==
    /\ refresh_log = << >>
    /\ started = FALSE
    /\ loop = "off"
    /\ inFlight = FALSE
    /\ running = {}
    /\ attempt = NoAttempt

\* @app.on_event("startup"): start_scheduler_background()
startup_event ==
    /\ ~started
    /\ started' = TRUE
    /\ loop' = "idle"
    /\ UNCHANGED <<now, newsVars, connVars, dbVars, refresh_log, inFlight, running,
                   attempt>>

\* the poll interval elapses: IDLE -> CHECKING
LoopWake ==
    /\ loop = "idle"
    /\ loop' = "checking"
    /\ UNCHANGED <<now, newsVars, connVars, dbVars, refresh_log, started, inFlight,
                   running, attempt>>

\* CHECKING: refresh when the dataset needs it and none is in flight
LoopCheck ==
    /\ loop = "checking"
    /\ IF /\ NeedsRefresh(stocks, now, RefreshMaxAge)
          /\ MayStart(inFlight)
          /\ Len(refresh_log) + Cardinality(running) < MaxLog
       THEN /\ inFlight' = TRUE
            /\ running' = running \cup {PollLoop}
            /\ loop' = "refreshing"
       ELSE /\ loop' = "idle"
            /\ UNCHANGED <<inFlight, running>>
    /\ UNCHANGED <<now, newsVars, connVars, dbVars, refresh_log, started, attempt>>

\* an additional trigger (e.g. a manual one): a no-op while one is in flight
Trigger(t) ==
    /\ started
    /\ t \notin running
    /\ Len(refresh_log) + Cardinality(running) < MaxLog
    /\ IF MayStart(inFlight)
       THEN /\ inFlight' = TRUE
            /\ running' = running \cup {t}
            /\ attempt' = [who |-> t, noop |-> FALSE]
       ELSE /\ attempt' = [who |-> t, noop |-> TRUE]
            /\ UNCHANGED <<inFlight, running>>
    /\ UNCHANGED <<now, newsVars, connVars, dbVars, refresh_log, started, loop>>

\* the end of a run by r: flag cleared, audit record appended
RunEnds(r) ==
    /\ inFlight' = FALSE
    /\ running' = running \ {r}
    /\ loop' = IF r = PollLoop THEN "idle" ELSE loop
    /\ UNCHANGED <<now, newsVars, connVars, started, attempt>>

\* the Bulk Refresh Executor run of r succeeds: upsert and audit
RunSucceeds(r, batch) ==
    /\ r \in running
    /\ InsertEffect(batch)
    /\ refresh_log' =
          LogRefresh(refresh_log, InsertStocksBulk(stocks, batch)[2], TRUE)
    /\ RunEnds(r)

\* the provider call fails: nothing written, the failure is audited
RunFails(r) ==
    /\ r \in running
    /\ refresh_log' = LogRefresh(refresh_log, 0, FALSE)
    /\ UNCHANGED dbVars
    /\ RunEnds(r)

TriggerAttempt == \E t \in Triggers : Trigger(t)

RunSuccess ==
    \E r \in running, b \in ProviderBatches(now) : RunSucceeds(r, b)

RunFailure == \E r \in running : RunFails(r)

CoNext ==
    \/ startup_event
    \/ LoopWake
    \/ LoopCheck
    \/ TriggerAttempt
    \/ RunSuccess
    \/ RunFailure
    \/ Tick

----------------------------------------------------------------------------
(* DatabaseManager: the connection shared by concurrent operations *)

\* the threads that call into db: request handlers and the background refresh
Threads == 1..MaxOps

OpKinds == {"get_all_stocks", "insert_stocks_bulk", "log_refresh"}

\* self.conn = None
NoConn == 0

\* a thread's operation: where it stands, its local variable conn, the
\* records it has passed to execute, its success_count, whether an exception
\* left the method (err) and whether a statement met a closed connection
Op(pc, kind, local, i, count, err, onClosed) ==
    [pc |-> pc, kind |-> kind, local |-> local, i |-> i, count |-> count,
     err |-> err, onClosed |-> onClosed]

ConnInit ==
    /\ conn = NoConn
    /\ opened = {}
    /\ made = 0
    /\ ops = [p \in Threads |-> Op("idle", "none", NoConn, 0, 0, FALSE, FALSE)]

\* conn = self.connect(): a new connection, stored in self.conn and returned
connect(p, kind) ==
    /\ ops[p].pc = "idle"
    /\ made < MaxConns
    /\ made' = made + 1
    /\ conn' = made + 1
    /\ opened' = opened \cup {made + 1}
    /\ ops' = [ops EXCEPT
                 ![p] = Op("execute", kind, made + 1, 0, 0, FALSE, FALSE)]
    /\ UNCHANGED <<now, newsVars, dbVars, coVars>>

\* cursor.execute on the local connection; it raises on a closed one.
\* insert_stocks_bulk catches the exception per record and goes on.
execute(p) ==
    LET o == ops[p]
        open == o.local \in opened
    IN  /\ o.pc = "execute"
        /\ ops' = [ops EXCEPT ![p] =
              CASE o.kind = "get_all_stocks" ->
                     Op("finally", o.kind, o.local, 1, 0, ~open, ~open)
                [] o.kind = "log_refresh" ->
                     Op(IF open THEN "commit" ELSE "finally", o.kind, o.local,
                        1, 0, ~open, ~open)
                [] OTHER ->
                     Op(IF o.i + 1 >= MaxBatch THEN "commit" ELSE "execute",
                        o.kind, o.local, o.i + 1,
                        IF open THEN o.count + 1 ELSE o.count,
                        FALSE, o.onClosed \/ ~open)]
        /\ UNCHANGED <<now, newsVars, dbVars, coVars, conn, opened, made>>

\* conn.commit() on the local connection; it raises on a closed one
commit(p) ==
    LET o == ops[p]
        open == o.local \in opened
    IN  /\ o.pc = "commit"
        /\ ops' = [ops EXCEPT ![p] =
              Op("finally", o.kind, o.local, o.i, o.count,
                 ~open, o.onClosed \/ ~open)]
        /\ UNCHANGED <<now, newsVars, dbVars, coVars, conn, opened, made>>

\* finally: self.close() closes whatever self.conn holds now; on return the
\* local connection object is released, which closes it if it is still open
close(p) ==
    LET o == ops[p]
    IN  /\ o.pc = "finally"
        /\ opened' = (opened \ {conn}) \ {o.local}
        /\ conn' = NoConn
        /\ ops' = [ops EXCEPT ![p] =
              Op("idle", o.kind, NoConn, o.i, o.count, o.err, o.onClosed)]
        /\ UNCHANGED <<now, newsVars, dbVars, coVars, made>>

ConnectStep == \E p \in Threads, kind \in OpKinds : connect(p, kind)

ExecuteStep == \E p \in Threads : execute(p)

CommitStep == \E p \in Threads : commit(p)

CloseStep == \E p \in Threads : close(p)

ConnNext ==
    \/ ConnectStep
    \/ ExecuteStep
    \/ CommitStep
    \/ CloseStep

----------------------------------------------------------------------------

Init == NewsInit /\ DbInit /\ CoInit /\ ConnInit

SpecConn == Init /\ [][ConnNext]_vars

SpecRefresh == Init /\ [][CoNext]_vars

SpecDb == Init /\ [][DbNext]_vars

Next ==
    \/ NewsRequest
    \/ CompanyRequest
    \/ Tick

Spec == Init /\ [][Next]_vars

----------------------------------------------------------------------------
(* Properties of the cache-backed read paths *)

Served == req.op /= "none"

HadEntry == Served /\ req.key \in DOMAIN req.pre

EntryBefore == req.pre[req.key]

\* C1: when the provider fetch fails with the rate-limit error, the read
\* returns the cached value if an entry exists for the key (whatever its
\* value, the empty list included) and answers 503 only when none exists.
C1_RateLimitServesAnyEntry ==
    (Served /\ req.outcome = "ratelimit") =>
        IF req.key \in DOMAIN req.pre
        THEN resp = Ok(EntryBefore.value)
        ELSE resp = HTTPException(503)

\* C3: when an entry for the key is present and not stale (whatever its
\* value, the empty list included), the read returns it, does not call the
\* provider and leaves the cache unchanged.
C3_FreshEntryServedWithoutFetch ==
    (HadEntry /\ ~IsStale(EntryBefore, NEWS_TTL, req.at)) =>
        /\ resp = Ok(EntryBefore.value)
        /\ ~req.called
        /\ news_cache = req.pre

\* C7: a read whose provider fetch fails, in whatever way, returns the
\* cached value when an entry exists and otherwise answers 503; it never
\* ends in the generic internal error.
C7_FetchFailureNeverInternalError ==
    (Served /\ req.outcome \in {"ratelimit", "error"}) =>
        /\ resp.status /= 500
        /\ IF req.key \in DOMAIN req.pre
           THEN resp = Ok(EntryBefore.value)
           ELSE resp = HTTPException(503)

\* the read answered with an entry whose age exceeds the TTL
ServedStale ==
    /\ HadEntry
    /\ IsStale(EntryBefore, NEWS_TTL, req.at)
    /\ req.outcome = "ratelimit"
    /\ resp.status = 200

\* C8: a response that serves a cached value older than the TTL can be told
\* apart from the response that serves the same value fresh (the stale case
\* of "fresh data, flagged stale data or a try-again-later signal").
C8_StaleResponseIsFlagged ==
    ServedStale => resp /= Ok(EntryBefore.value)

\* C9: after set(k, v) and until the next set(k), get(k) returns v itself,
\* with isStale false while the elapsed time is at most the TTL and true once
\* it is greater; neither time nor a get removes the entry.
C9_StalenessAdvisory ==
    \A k \in DOMAIN lastSet :
        TTLCacheGet(news_cache, k, now) =
            <<lastSet[k].value, (now - lastSet[k].at) > NEWS_TTL>>

\* a read found the entry stale and still got the value that was set
C9_Witness ==
    /\ ServedStale
    /\ resp.body = lastSet[req.key].value
    /\ now > req.at
    /\ TTLCacheGet(news_cache, req.key, now) = <<resp.body, TRUE>>

\* the item was built by news(category) from a market-news fetch
FromMarketFetch(item, category) ==
    item.category = category /\ item.tickers = << >>

\* the item was built by company_news(ticker) from a company-news fetch
FromCompanyFetch(item, ticker) ==
    item.category = <<"c", "o">> /\ item.tickers = <<Upper(ticker)>>

\* C12: the two read paths never serve each other's data: every item news(c)
\* returns comes from a market-news fetch for category c, every item
\* company_news(t) returns from a company-news fetch for ticker t.
C12_NoCrossServing ==
    (Served /\ resp.status = 200) =>
        \A i \in 1..Len(resp.body.items) :
            IF req.op = "news"
            THEN FromMarketFetch(resp.body.items[i], req.arg)
            ELSE FromCompanyFetch(resp.body.items[i], req.arg)

----------------------------------------------------------------------------
(* Properties of the refresh coordinator *)

AtMostOneRefresh == Cardinality(running) <= 1

TriggerWhileInFlightIsNoOp ==
    \A t \in Triggers :
        (inFlight /\ Trigger(t)) =>
            UNCHANGED <<inFlight, running, loop, stocks, refresh_log>>

\* C2: at most one bulk refresh executes at any time, whatever the
\* interleaving of the poll loop and the triggers, and a trigger that arrives
\* while a refresh is in flight changes nothing.
C2_AtMostOneRefreshInFlight ==
    [](AtMostOneRefresh) /\ [][TriggerWhileInFlightIsNoOp]_vars

\* a trigger arrived while the poll loop's refresh was running
C2_Witness ==
    /\ attempt.noop
    /\ inFlight
    /\ running = {PollLoop}
    /\ loop = "refreshing"

----------------------------------------------------------------------------
(* Properties of the shared connection *)

InProgress(p) == ops[p].pc \in {"execute", "commit"}

\* C11: concurrent store operations do not interfere through the connection:
\* the connection of an operation in progress has not been closed by another
\* operation's close(), no statement meets a closed connection, and once all
\* operations have returned every connection that was opened is closed.
C11_NoConnectionInterference ==
    /\ \A p \in Threads : InProgress(p) => ops[p].local \in opened
    /\ \A p \in Threads : ~ops[p].onClosed
    /\ (\A p \in Threads : ops[p].pc = "idle") => opened = {}

----------------------------------------------------------------------------
(* Properties of the DatabaseManager *)

Threshold(max_age_minutes) == max_age_minutes * TicksPerMinute

Succeeded(batch) == { i \in 1..Len(batch) : ~ExecuteRaises(batch[i]) }

Rows(tbl) == { tbl[i] : i \in 1..Len(tbl) }

UniqueTickers(tbl) ==
    \A i, j \in 1..Len(tbl) : tbl[i].ticker = tbl[j].ticker => i = j

\* C4: needs_refresh is true when the table is empty, and otherwise true
\* exactly when the age of the newest last_updated is strictly greater than
\* the threshold (false when the age equals it).
C4_NeedsRefreshStrict ==
    ret.op = "needs_refresh" =>
        LET ts == Timestamps(stocks)
        IN  /\ stocks = << >> => ret.flag = TRUE
            /\ ts = {} => ret.flag = TRUE
            /\ \A newest \in ts :
                  (\A y \in ts : y <= newest) =>
                      ret.flag =
                          (ret.at - newest > Threshold(ret.max_age_minutes))

\* a call at the threshold exactly, answered false
C4_Witness ==
    /\ ret.op = "needs_refresh"
    /\ ret.max_age_minutes > 0
    /\ \E newest \in Timestamps(stocks) :
          /\ \A y \in Timestamps(stocks) : y <= newest
          /\ ret.at - newest = Threshold(ret.max_age_minutes)
    /\ ret.flag = FALSE

\* what a call with this batch must leave behind
BulkPost(batch) ==
    /\ ret'.count = Cardinality(Succeeded(batch))
    /\ \A i \in Succeeded(batch) :
          (\A j \in Succeeded(batch) :
              j > i => batch[j].ticker /= batch[i].ticker)
          => batch[i] \in Rows(stocks')
    /\ \A row \in Rows(stocks) :
          (\A i \in Succeeded(batch) : batch[i].ticker /= row.ticker)
          => row \in Rows(stocks')

\* C5: a record whose upsert fails does not abort the batch: every record
\* that succeeds is written and committed (the last one per ticker stays),
\* the other rows are kept, and the returned count is the number of records
\* whose upsert succeeded.
C5_PartialFailureTolerated ==
    [][(ret'.op = "insert_stocks_bulk" /\ insert_stocks_bulk(lastBatch'))
          => BulkPost(lastBatch')]_vars

\* a batch whose first record failed and whose second was written
C5_Witness ==
    /\ ret.op = "insert_stocks_bulk"
    /\ Len(lastBatch) >= 2
    /\ ExecuteRaises(lastBatch[1])
    /\ ~ExecuteRaises(lastBatch[2])
    /\ ret.count = Len(lastBatch) - 1
    /\ lastBatch[2] \in Rows(stocks)

\* C6: running insert_stocks_bulk again with the batch of the previous run
\* leaves the table as the first run left it, with one row per ticker.
C6_BulkIdempotent ==
    [][(lastBatch /= NoBatch /\ insert_stocks_bulk(lastBatch)) =>
          (stocks' = stocks /\ UniqueTickers(stocks'))]_vars

\* a second run of a batch that replaced a row next to an untouched one
C6_Witness ==
    /\ ret.op = "insert_stocks_bulk"
    /\ ret.repeat
    /\ ret.count >= 1
    /\ Len(stocks) >= 2
    /\ \E row \in Rows(stocks) :
          \A i \in 1..Len(lastBatch) : lastBatch[i].ticker /= row.ticker

\* C10: freshness is global: once the last insert_stocks_bulk has written a
\* row whose last_updated is within the threshold, needs_refresh is false,
\* whatever the age of the other rows.
C10_FreshnessIsGlobal ==
    (/\ ret.op = "needs_refresh"
     /\ lastBatch /= NoBatch
     /\ \E row \in Rows(stocks) :
           /\ \E i \in Succeeded(lastBatch) : lastBatch[i] = row
           /\ row.last_updated /= NULL
           /\ ret.at - row.last_updated <= Threshold(ret.max_age_minutes))
    => ret.flag = FALSE

\* a partial refresh: one current row, one row older than the threshold
C10_Witness ==
    /\ ret.op = "needs_refresh"
    /\ lastBatch /= NoBatch
    /\ \E row \in Rows(stocks) :
          /\ \E i \in Succeeded(lastBatch) : lastBatch[i] = row
          /\ row.last_updated /= NULL
          /\ ret.at - row.last_updated <= Threshold(ret.max_age_minutes)
    /\ \E old \in Rows(stocks) :
          /\ old.last_updated /= NULL
          /\ ret.at - old.last_updated > Threshold(ret.max_age_minutes)
    /\ ret.flag = FALSE

============================================================================
